---------------------------- MODULE Spec2Model ----------------------------
(***************************************************************************)
(* opentag: the tag forest, its persistence (serde), the validator, the    *)
(* resolver and the management commands (add / remove / update).           *)
(*                                                                         *)
(* A string is a sequence of one-character strings, so that the parsers'   *)
(* tests (is_empty, contains(' '), starts_with('-'), split(',')) are       *)
(* computed as the code computes them.  Option<T> is a sequence of length  *)
(* 0 (None) or 1 (Some).  A node is addressed by its index path: the       *)
(* sequence of sibling indices from the root.                              *)
(***************************************************************************)
EXTENDS Integers, Sequences, FiniteSets, TLC

VARIABLES file, mem, nops, last

vars == <<file, mem, nops, last>>

\* The number of program invocations one behaviour performs.
MaxOps == 1

---------------------------------------------------------------------------
\* Strings

None == <<>>

Some(x) == <<x>>

Add == <<"a", "d", "d">>

Remove == <<"r", "e", "m", "o", "v", "e">>

Update == <<"u", "p", "d", "a", "t", "e">>

\* commands.rs: DEFAULT_SUBCOMMAND_NAMES
DEFAULT_SUBCOMMAND_NAMES == <<Add, Remove, Update>>

Range(s) == {s[i] : i \in DOMAIN s}

Contains(s, x) == \E i \in DOMAIN s : s[i] = x

StartsWith(s, c) == Len(s) > 0 /\ s[1] = c

IsWhite(c) == c \in {" ", "\n"}

Tail2(s, i) == SubSeq(s, i, Len(s))

\* str::split(sep): always at least one piece
RECURSIVE Split(_, _)
Split(s, c) ==
    IF ~Contains(s, c) THEN <<s>>
    ELSE LET i == CHOOSE k \in DOMAIN s : s[k] = c /\ \A j \in 1..(k-1) : s[j] # c
         IN  <<SubSeq(s, 1, i - 1)>> \o Split(Tail2(s, i + 1), c)

\* str::split_terminator(sep): split, with a trailing empty piece skipped
SplitTerminator(s, c) ==
    LET p == Split(s, c)
    IN  IF p[Len(p)] = <<>> THEN SubSeq(p, 1, Len(p) - 1) ELSE p

RECURSIVE TrimStart(_)
TrimStart(s) == IF Len(s) > 0 /\ IsWhite(s[1]) THEN TrimStart(Tail(s)) ELSE s

RECURSIVE TrimEnd(_)
TrimEnd(s) ==
    IF Len(s) > 0 /\ IsWhite(s[Len(s)]) THEN TrimEnd(SubSeq(s, 1, Len(s) - 1)) ELSE s

\* str::trim
Trim(s) == TrimEnd(TrimStart(s))

\* str::lines
Lines(s) == SplitTerminator(s, "\n")

RECURSIVE Concat(_)
Concat(ss) == IF ss = <<>> THEN <<>> ELSE Head(ss) \o Concat(Tail(ss))

MapSeq(s, Op(_)) == [i \in DOMAIN s |-> Op(s[i])]

---------------------------------------------------------------------------
\* parser.rs

Ok(v) == [ok |-> TRUE, val |-> v, err |-> "none"]

Err(e) == [ok |-> FALSE, val |-> <<>>, err |-> e]

tag_name_parser(s) ==
    IF s = <<>> THEN Err("EmptyName")
    ELSE IF Contains(s, " ") THEN Err("NameWithSpaces")
    ELSE IF StartsWith(s, "-") THEN Err("NameBeginsWithHyphen")
    ELSE IF Contains(DEFAULT_SUBCOMMAND_NAMES, s) THEN Err("ReservedName")
    ELSE Ok(s)

tag_aliases_parser(s) ==
    IF Contains(s, " ") THEN Err("NameWithSpaces")
    ELSE IF StartsWith(s, "-") THEN Err("NameBeginsWithHyphen")
    ELSE LET names == Split(s, ",")
         IN  IF \E i \in DOMAIN names : Contains(DEFAULT_SUBCOMMAND_NAMES, names[i])
             THEN Err("ReservedName")
             ELSE Ok(names)

---------------------------------------------------------------------------
\* tag.rs: the data model

Tag(names, path, about, app, subtags) ==
    [names |-> names, path |-> path, about |-> about, app |-> app, subtags |-> subtags]

IsLive(t) == t.names # <<>>


\* Vec<Tag>::get / get_mut along an index path (ip is not empty)
RECURSIVE GetTag(_, _)
GetTag(tags, ip) ==
    IF Len(ip) = 1 THEN tags[ip[1]] ELSE GetTag(tags[ip[1]].subtags, Tail(ip))

RECURSIVE SetTag(_, _, _)
SetTag(tags, ip, t) ==
    IF Len(ip) = 1 THEN [tags EXCEPT ![ip[1]] = t]
    ELSE [tags EXCEPT ![ip[1]].subtags = SetTag(@, Tail(ip), t)]

\* the sibling sequence a context owns: the root sequence, or a tag's subtags
LevelAt(tags, ctx) == IF ctx = <<>> THEN tags ELSE GetTag(tags, ctx).subtags

SetLevel(tags, ctx, lvl) ==
    IF ctx = <<>> THEN lvl ELSE SetTag(tags, ctx, [GetTag(tags, ctx) EXCEPT !.subtags = lvl])

\* every index path of a forest, tombstoned nodes included
RECURSIVE Paths(_)
Paths(tags) ==
    UNION {{<<i>>} \cup {<<i>> \o p : p \in Paths(tags[i].subtags)} : i \in DOMAIN tags}

---------------------------------------------------------------------------
\* tag.rs: serialization.  A JSON object is a function from the field names
\* it carries; a names value is a single string or a list of strings.

JOne(s) == [one |-> s]

JMany(l) == [many |-> l]

EmptyObj == [x \in {} |-> <<>>]

Field(k, opt) == IF opt = None THEN EmptyObj ELSE (k :> opt[1])

RECURSIVE SerializeTag(_)

\* skip_no_names without its filter
skip_no_names_unfiltered(tags) == [i \in DOMAIN tags |-> SerializeTag(tags[i])]

\* skip_no_names writing the subtags of a tag without names in its place
RECURSIVE skip_no_names_hoisting(_)
skip_no_names_hoisting(tags) ==
    IF tags = <<>> THEN <<>>
    ELSE (IF IsLive(Head(tags)) THEN <<SerializeTag(Head(tags))>>
          ELSE skip_no_names_hoisting(Head(tags).subtags))
         \o skip_no_names_hoisting(Tail(tags))

\* skip_no_names: only the tags with names are elements of the written sequence
skip_no_names(tags) ==
    LET live == SelectSeq(tags, IsLive)
    IN  [i \in DOMAIN live |-> SerializeTag(live[i])]

\* #[derive(Serialize)] for Tag, with its skip_serializing_if / serialize_with
SerializeTag(t) ==
    (IF t.names = <<>> THEN EmptyObj ELSE ("names" :> JMany(t.names)))
    @@ Field("path", t.path) @@ Field("about", t.about) @@ Field("app", t.app)
    @@ (IF t.subtags = <<>> THEN EmptyObj ELSE ("subtags" :> skip_no_names(t.subtags)))

\* serde_json::to_string_pretty(&TagsSerde(tags))
Serialize(tags) == skip_no_names(tags)

\* deserialize_one_or_more taking an empty list as it comes
deserialize_one_or_more_lenient(v) ==
    IF "one" \in DOMAIN v THEN Ok(<<v.one>>) ELSE Ok(v.many)

\* deserialize_one_or_more
deserialize_one_or_more(v) ==
    IF "one" \in DOMAIN v THEN Ok(<<v.one>>)
    ELSE IF v.many = <<>> THEN Err("expected at least one item")
    ELSE Ok(v.many)

\* the first of a field's accepted keys that the object carries
Keyed(obj, keys) == SelectSeq(keys, LAMBDA k : k \in DOMAIN obj)

OptField(obj, keys) ==
    LET ks == Keyed(obj, keys) IN IF ks = <<>> THEN None ELSE Some(obj[ks[1]])

NameKeys == <<"names", "name">>

PathKeys == <<"path", "url", "link">>

AppKeys == <<"app", "default_app", "default_application">>

\* #[derive(Deserialize)] for Tag: does the document load?
RECURSIVE Loads(_)
Loads(doc) ==
    \A i \in DOMAIN doc :
        /\ Len(Keyed(doc[i], NameKeys)) = 1
        /\ deserialize_one_or_more(doc[i][Keyed(doc[i], NameKeys)[1]]).ok
        /\ Len(Keyed(doc[i], PathKeys)) <= 1
        /\ Len(Keyed(doc[i], AppKeys)) <= 1
        /\ ("subtags" \in DOMAIN doc[i] => Loads(doc[i].subtags))

\* get_tags, of a document that loads
RECURSIVE get_tags(_)
get_tags(doc) ==
    [i \in DOMAIN doc |->
        Tag(deserialize_one_or_more(doc[i][Keyed(doc[i], NameKeys)[1]]).val,
            OptField(doc[i], PathKeys),
            OptField(doc[i], <<"about">>),
            OptField(doc[i], AppKeys),
            IF "subtags" \in DOMAIN doc[i] THEN get_tags(doc[i].subtags) ELSE <<>>)]

---------------------------------------------------------------------------
\* tag.rs: the validator

NoConflict == [ok |-> TRUE, err |-> "none", name |-> <<>>]

Conflict(e, n) == [ok |-> FALSE, err |-> e, name |-> n]

\* the names of one sibling level, in the order the two loops visit them
AllNames(tags) == Concat([i \in DOMAIN tags |-> tags[i].names])

\* validate_tags::recurse, first loop: one pass over a level with a set of seen names
check_level(tags) ==
    LET ns  == AllNames(tags)
        bad == {k \in DOMAIN ns :
                   \/ \E j \in 1..(k - 1) : ns[j] = ns[k]
                   \/ Contains(DEFAULT_SUBCOMMAND_NAMES, ns[k])}
    IN  IF bad = {} THEN NoConflict
        ELSE LET k == CHOOSE m \in bad : \A o \in bad : m <= o
             IN  IF \E j \in 1..(k - 1) : ns[j] = ns[k]
                 THEN Conflict("NameInUse", ns[k])
                 ELSE Conflict("ReservedName", ns[k])

\* validate_tags descending into the subtags before it checks the level
RECURSIVE validate_tags_subtags_first(_)
validate_tags_subtags_first(tags) ==
    LET here == check_level(tags)
        sub  == [i \in DOMAIN tags |-> validate_tags_subtags_first(tags[i].subtags)]
        bad  == {i \in DOMAIN tags : ~sub[i].ok}
    IN  IF bad # {} THEN sub[CHOOSE m \in bad : \A o \in bad : m <= o]
        ELSE here

\* validate_tags::recurse: the level, then every tag's subtags in sibling order
RECURSIVE validate_tags(_)
validate_tags(tags) ==
    LET here == check_level(tags)
        sub  == [i \in DOMAIN tags |-> validate_tags(tags[i].subtags)]
        bad  == {i \in DOMAIN tags : ~sub[i].ok}
    IN  IF ~here.ok THEN here
        ELSE IF bad = {} THEN NoConflict
        ELSE sub[CHOOSE m \in bad : \A o \in bad : m <= o]


\* validate_and_write_tags writing before it validates
write_and_validate_tags(tags, old) ==
    LET v == validate_tags(tags)
    IN  [ok |-> v.ok, err |-> v.err, file |-> Serialize(tags),
         log |-> <<"write", "validate">>]

\* validate_and_write_tags: the persisted document after the call, and the
\* steps taken; a failed validation returns before write_tags
validate_and_write_tags(tags, old) ==
    LET v == validate_tags(tags)
    IN  IF ~v.ok THEN [ok |-> FALSE, err |-> v.err, file |-> old, log |-> <<"validate">>]
        ELSE [ok |-> TRUE, err |-> "none", file |-> Serialize(tags),
              log |-> <<"validate", "write">>]

\* write_tags
write_tags(tags, old) ==
    [ok |-> TRUE, err |-> "none", file |-> Serialize(tags), log |-> <<"write">>]

---------------------------------------------------------------------------
\* commands.rs: the management commands.  An argument of a management
\* subcommand is [present, val]: contains_id(..) and remove_one(..).

Absent == [present |-> FALSE, val |-> None]

NoValue == [present |-> TRUE, val |-> None]

Value(v) == [present |-> TRUE, val |-> Some(v)]

\* check_if_names_are_used: the first of `names` some tag of `subtags` carries
check_if_names_are_used(names, subtags) ==
    LET used == UNION {Range(subtags[i].names) : i \in DOMAIN subtags}
        hits == SelectSeq(names, LAMBDA n : n \in used)
    IN  IF hits = <<>> THEN None ELSE Some(hits[1])

\* add_tag_inline looking up the first name only
add_tag_inline_first_name(tag, tags) ==
    IF check_if_names_are_used(<<tag.names[1]>>, tags) # None
    THEN [ok |-> FALSE, err |-> "NameInUse", tags |-> tags]
    ELSE [ok |-> TRUE, err |-> "none", tags |-> Append(tags, tag)]

\* add_tag_inline
add_tag_inline(tag, tags) ==
    IF check_if_names_are_used(tag.names, tags) # None
    THEN [ok |-> FALSE, err |-> "NameInUse", tags |-> tags]
    ELSE [ok |-> TRUE, err |-> "none", tags |-> Append(tags, tag)]

\* tag_from_add_matches: None without a name
tag_from_add_matches(m) ==
    IF m.name = None THEN None
    ELSE Some(Tag(<<m.name[1]>> \o (IF m.alias.val = None THEN <<>> ELSE m.alias.val[1]),
                  m.path.val, m.about.val, m.app.val, <<>>))

\* remove_tag_inline dropping the subtags too
remove_tag_inline_drop_subtags(tag, no_prompt, confirm) ==
    IF ~no_prompt /\ ~confirm THEN [removed |-> FALSE, tag |-> tag]
    ELSE [removed |-> TRUE, tag |-> [tag EXCEPT !.names = <<>>, !.subtags = <<>>]]

\* remove_tag_inline: the tag afterwards, and whether it was removed
remove_tag_inline(tag, no_prompt, confirm) ==
    IF ~no_prompt /\ ~confirm THEN [removed |-> FALSE, tag |-> tag]
    ELSE [removed |-> TRUE, tag |-> [tag EXCEPT !.names = <<>>]]

\* update_if_present without the is_present branch
update_if_present_never_clears(arg, field) == IF arg.val # None THEN arg.val ELSE field

\* update_tag_inline::update_if_present
update_if_present(arg, field) ==
    IF arg.val # None THEN arg.val
    ELSE IF arg.present THEN None
    ELSE field

\* update_names extending the aliases instead of splicing them
update_names_extend(names, m) ==
    LET n1      == IF m.name # None THEN [names EXCEPT ![1] = m.name[1]] ELSE names
        aliases == IF m.alias.val = None THEN <<>> ELSE m.alias.val[1]
    IN  IF aliases # <<>> THEN n1 \o aliases
        ELSE IF m.alias.present THEN <<n1[1]>>
        ELSE n1

\* update_tag_inline, the names: names[0] = name; splice(1.., aliases) / truncate(1)
update_names(names, m) ==
    LET n1      == IF m.name # None THEN [names EXCEPT ![1] = m.name[1]] ELSE names
        aliases == IF m.alias.val = None THEN <<>> ELSE m.alias.val[1]
    IN  IF aliases # <<>> THEN <<n1[1]>> \o aliases
        ELSE IF m.alias.present THEN <<n1[1]>>
        ELSE n1

\* update_tag_inline
update_tag_inline(tag, m) ==
    [tag EXCEPT !.names = update_names(@, m),
                !.path  = update_if_present(m.path, @),
                !.about = update_if_present(m.about, @),
                !.app   = update_if_present(m.app, @)]

\* select_tag: the picks are the items the user selects, one per prompt, and
\* then esc (or no further prompt, under a tag without subtags)
RECURSIVE select_tag(_, _)
select_tag(tags, picks) ==
    IF picks = <<>> THEN None
    ELSE LET i   == picks[1]
             sub == IF tags[i].subtags # <<>>
                    THEN select_tag(tags[i].subtags, Tail(picks)) ELSE None
         IN  IF sub # None THEN Some(<<i>> \o sub[1]) ELSE Some(<<i>>)

\* the comma-separated name list of the interactive commands
ParseNameList(text) == MapSeq(SplitTerminator(text, ","), Trim)

\* interactive_update::filter_text
filter_text(text) ==
    Concat(SelectSeq(Lines(text),
                     LAMBDA l : ~StartsWith(Trim(l), "#") /\ Trim(l) # <<>>))

\* interactive_add::get_optional
get_optional(opt) == IF opt = <<>> THEN None ELSE Some(opt)

\* interactive_add
interactive_add(tags, a) ==
    LET names == ParseNameList(a.input)
        sel   == select_tag(tags, a.picks)
        ctx   == IF sel # None THEN sel[1] ELSE <<>>
        lvl   == LevelAt(tags, ctx)
    IN  IF check_if_names_are_used(names, lvl) # None
        THEN [ok |-> FALSE, err |-> "NameInUse", tags |-> tags, ctx |-> ctx]
        ELSE [ok |-> TRUE, err |-> "none", ctx |-> ctx,
              tags |-> SetLevel(tags, ctx,
                         Append(lvl, Tag(names, get_optional(a.ipath),
                                         get_optional(a.iabout), get_optional(a.iapp),
                                         <<>>)))]

\* interactive_remove
interactive_remove(tags, a) ==
    LET sel == select_tag(tags, a.picks)
    IN  IF sel = None THEN [removed |-> FALSE, tags |-> tags, ctx |-> <<>>]
        ELSE IF ~a.no_prompt /\ ~a.confirm
        THEN [removed |-> FALSE, tags |-> tags, ctx |-> sel[1]]
        ELSE [removed |-> TRUE, ctx |-> sel[1],
              tags |-> SetTag(tags, sel[1], [GetTag(tags, sel[1]) EXCEPT !.names = <<>>])]

\* interactive_update::update_field
update_field(field, edit) ==
    IF edit = None THEN field
    ELSE IF filter_text(edit[1]) # <<>> THEN Some(filter_text(edit[1])) ELSE None

\* interactive_update
interactive_update(tags, a) ==
    LET sel   == select_tag(tags, a.picks)
        tag   == GetTag(tags, sel[1])
        names == IF a.enames = None THEN tag.names
                 ELSE ParseNameList(filter_text(a.enames[1]))
    IN  IF sel = None
        THEN [ok |-> TRUE, updated |-> FALSE, err |-> "none", tags |-> tags, ctx |-> <<>>]
        ELSE IF names = <<>>
        THEN [ok |-> FALSE, updated |-> FALSE, err |-> "MissingName", tags |-> tags,
              ctx |-> sel[1]]
        ELSE [ok |-> TRUE, updated |-> TRUE, err |-> "none", ctx |-> sel[1],
              tags |-> SetTag(tags, sel[1],
                         [tag EXCEPT !.names = names,
                                     !.path  = update_field(@, a.epath),
                                     !.about = update_field(@, a.eabout),
                                     !.app   = update_field(@, a.eapp)])]


\* run_nested_default_command: the resolved tag afterwards and the verb returned
run_nested_default_command(tag, command, m) ==
    IF command = Add THEN
        IF tag_from_add_matches(m) = None
        THEN [ok |-> FALSE, err |-> "tag name cannot be empty", tag |-> tag, verb |-> "none"]
        ELSE LET r == add_tag_inline(tag_from_add_matches(m)[1], tag.subtags)
             IN  [ok |-> r.ok, err |-> r.err, tag |-> [tag EXCEPT !.subtags = r.tags],
                  verb |-> IF r.ok THEN "Added" ELSE "none"]
    ELSE IF command = Remove THEN
        LET r == remove_tag_inline(tag, m.no_prompt, m.confirm)
        IN  [ok |-> TRUE, err |-> "none", tag |-> r.tag,
             verb |-> IF r.removed THEN "Removed" ELSE "Did not remove"]
    ELSE IF command = Update THEN
        [ok |-> TRUE, err |-> "none", tag |-> update_tag_inline(tag, m), verb |-> "Updated"]
    ELSE [ok |-> FALSE, err |-> "UnexpectedCommand", tag |-> tag, verb |-> "none"]

\* what one invocation leaves behind
Result(outcome, err, tags, doc, log, ctx) ==
    [outcome |-> outcome, err |-> err, mem |-> tags, file |-> doc, log |-> log, ctx |-> ctx]

\* the tail of a management command: the write, validated or not
Finish(w, tags, ctx) ==
    Result(IF w.ok THEN "Committed" ELSE "Rejected", w.err, tags, w.file,
           <<"mutate">> \o w.log, ctx)

\* run_global_default_command
run_global_default_command(name, m, tags, old) ==
    IF name = Add THEN
        IF tag_from_add_matches(m) # None THEN
            LET r == add_tag_inline(tag_from_add_matches(m)[1], tags)
            IN  IF ~r.ok THEN Result("Rejected", r.err, r.tags, old, <<>>, <<>>)
                ELSE Finish(write_tags(r.tags, old), r.tags, <<>>)
        ELSE
            LET r == interactive_add(tags, m)
            IN  IF ~r.ok THEN Result("Rejected", r.err, r.tags, old, <<>>, r.ctx)
                ELSE Finish(validate_and_write_tags(r.tags, old), r.tags, r.ctx)
    ELSE IF name = Remove THEN
        LET r == interactive_remove(tags, m)
        IN  IF ~r.removed
            THEN Result("Rejected", IF select_tag(tags, m.picks) = None
                                    THEN "Cancelled" ELSE "Declined",
                        r.tags, old, <<>>, r.ctx)
            ELSE Finish(write_tags(r.tags, old), r.tags, r.ctx)
    ELSE IF name = Update THEN
        LET r == interactive_update(tags, m)
        IN  IF ~r.ok THEN Result("Rejected", r.err, r.tags, old, <<>>, r.ctx)
            ELSE IF ~r.updated THEN Result("Rejected", "Cancelled", r.tags, old, <<>>, r.ctx)
            ELSE Finish(validate_and_write_tags(r.tags, old), r.tags, r.ctx)
    ELSE Result("Done", "none", tags, old, <<>>, <<>>)

---------------------------------------------------------------------------
\* tag.rs: the resolver.  An invocation is the sequence of its levels' matches:
\* inv[1] is the root's, inv[k] the matches of the k-th command word, each with
\* the word (cmd), the level's action flags and, for a management word, its
\* arguments.  matches.remove_subcommand() of level k is level k + 1.

\* find_matching_tag comparing the first name only
RECURSIVE find_matching_tag_first_name(_, _, _)
find_matching_tag_first_name(tags, inv, k) ==
    LET hits == {i \in DOMAIN tags : tags[i].names # <<>> /\ tags[i].names[1] = inv[k].cmd}
    IN  IF hits = {} THEN None
        ELSE LET i == CHOOSE m \in hits : \A o \in hits : m <= o
             IN  IF k < Len(inv)
                 THEN IF Contains(DEFAULT_SUBCOMMAND_NAMES, inv[k + 1].cmd)
                      THEN Some([ip |-> <<i>>, m |-> k + 1, sub |-> Some(inv[k + 1].cmd)])
                      ELSE LET r == find_matching_tag_first_name(tags[i].subtags, inv, k + 1)
                           IN  IF r = None THEN None
                               ELSE Some([r[1] EXCEPT !.ip = <<i>> \o @])
                 ELSE Some([ip |-> <<i>>, m |-> k, sub |-> None])

\* find_matching_tag settling for the nearest tag when a later word names nothing
RECURSIVE find_matching_tag_nearest(_, _, _)
find_matching_tag_nearest(tags, inv, k) ==
    LET hits == {i \in DOMAIN tags : Contains(tags[i].names, inv[k].cmd)}
    IN  IF hits = {} THEN None
        ELSE LET i == CHOOSE m \in hits : \A o \in hits : m <= o
             IN  IF k < Len(inv)
                 THEN IF Contains(DEFAULT_SUBCOMMAND_NAMES, inv[k + 1].cmd)
                      THEN Some([ip |-> <<i>>, m |-> k + 1, sub |-> Some(inv[k + 1].cmd)])
                      ELSE LET r == find_matching_tag_nearest(tags[i].subtags, inv, k + 1)
                           IN  IF r = None THEN Some([ip |-> <<i>>, m |-> k, sub |-> None])
                               ELSE Some([r[1] EXCEPT !.ip = <<i>> \o @])
                 ELSE Some([ip |-> <<i>>, m |-> k, sub |-> None])

\* find_matching_tag descending into a tag named like a management word
RECURSIVE find_matching_tag_tags_first(_, _, _)
find_matching_tag_tags_first(tags, inv, k) ==
    LET hits == {i \in DOMAIN tags : Contains(tags[i].names, inv[k].cmd)}
    IN  IF hits = {} THEN None
        ELSE LET i == CHOOSE m \in hits : \A o \in hits : m <= o
             IN  IF k < Len(inv)
                 THEN LET r == find_matching_tag_tags_first(tags[i].subtags, inv, k + 1)
                      IN  IF r # None THEN Some([r[1] EXCEPT !.ip = <<i>> \o @])
                          ELSE IF Contains(DEFAULT_SUBCOMMAND_NAMES, inv[k + 1].cmd)
                          THEN Some([ip |-> <<i>>, m |-> k + 1, sub |-> Some(inv[k + 1].cmd)])
                          ELSE None
                 ELSE Some([ip |-> <<i>>, m |-> k, sub |-> None])

RECURSIVE find_matching_tag(_, _, _)
find_matching_tag(tags, inv, k) ==
    LET hits == {i \in DOMAIN tags : Contains(tags[i].names, inv[k].cmd)}
    IN  IF hits = {} THEN None
        ELSE LET i == CHOOSE m \in hits : \A o \in hits : m <= o
             IN  IF k < Len(inv)
                 THEN IF Contains(DEFAULT_SUBCOMMAND_NAMES, inv[k + 1].cmd)
                      THEN Some([ip |-> <<i>>, m |-> k + 1, sub |-> Some(inv[k + 1].cmd)])
                      ELSE LET r == find_matching_tag(tags[i].subtags, inv, k + 1)
                           IN  IF r = None THEN None
                               ELSE Some([r[1] EXCEPT !.ip = <<i>> \o @])
                 ELSE Some([ip |-> <<i>>, m |-> k, sub |-> None])

NoFlags ==
    [print |-> FALSE, copy |-> FALSE, list |-> FALSE, silent_copy |-> FALSE,
     app |-> None, info |-> FALSE]

\* MatchOptions::from_matches
RECURSIVE from_matches_loop(_, _)
from_matches_loop(flags, lom) ==
    IF lom = <<>> THEN flags
    ELSE LET m == Head(lom)
         IN  from_matches_loop(
                 [print       |-> flags.print \/ m.print,
                  copy        |-> flags.copy \/ m.copy,
                  list        |-> flags.list \/ m.list,
                  silent_copy |-> flags.silent_copy \/ m.silent_copy,
                  app         |-> IF flags.app = None THEN m.app ELSE flags.app,
                  info        |-> flags.info \/ m.info],
                 Tail(lom))

from_matches(lom) == from_matches_loop(NoFlags, lom)

\* run_tag asking for the path before it looks at list and info
run_tag_path_first(tag, o) ==
    LET silent == o.silent_copy \/ o.info
        info   == IF o.info THEN {"info"} ELSE {}
    IN  IF tag.path = None
        THEN [ok |-> FALSE, err |-> "TagWithNoPath", did |-> {}, app |-> None]
        ELSE IF o.list THEN [ok |-> TRUE, err |-> "none", did |-> {"list"}, app |-> None]
        ELSE IF o.info /\ ~o.copy
        THEN [ok |-> TRUE, err |-> "none", did |-> info, app |-> None]
        ELSE [ok |-> TRUE, err |-> "none",
              did |-> info \cup (IF o.copy \/ o.silent_copy THEN {"copy"} ELSE {})
                           \cup (IF o.print THEN {"print"}
                                 ELSE IF ~silent THEN {"open"} ELSE {}),
              app |-> IF ~o.print /\ ~silent
                      THEN (IF o.app # None THEN o.app ELSE tag.app) ELSE None]

\* run_tag: what it does with the tag
run_tag(tag, o) ==
    LET silent == o.silent_copy \/ o.info
        info   == IF o.info THEN {"info"} ELSE {}
    IN  IF o.list THEN [ok |-> TRUE, err |-> "none", did |-> {"list"}, app |-> None]
        ELSE IF o.info /\ (~o.copy \/ tag.path = None)
        THEN [ok |-> TRUE, err |-> "none", did |-> info, app |-> None]
        ELSE IF tag.path = None
        THEN [ok |-> FALSE, err |-> "TagWithNoPath", did |-> info, app |-> None]
        ELSE [ok |-> TRUE, err |-> "none",
              did |-> info \cup (IF o.copy \/ o.silent_copy THEN {"copy"} ELSE {})
                           \cup (IF o.print THEN {"print"}
                                 ELSE IF ~silent THEN {"open"} ELSE {}),
              app |-> IF ~o.print /\ ~silent
                      THEN (IF o.app # None THEN o.app ELSE tag.app) ELSE None]


---------------------------------------------------------------------------
\* The invocation surface: clap applies the value parsers to the name and the
\* alias list while it parses the command line.

NoArgs ==
    [name |-> None, alias |-> Absent, path |-> Absent, about |-> Absent, app |-> Absent,
     no_prompt |-> FALSE, confirm |-> FALSE,
     input |-> <<>>, picks |-> <<>>, ipath |-> <<>>, iabout |-> <<>>, iapp |-> <<>>,
     enames |-> None, epath |-> None, eabout |-> None, eapp |-> None]

\* app.rs, get_default_subcommands: value_parser(tag_name_parser) on "name",
\* value_parser(tag_aliases_parser) on "alias"
ParseArgs(a) ==
    LET n  == IF a.name = None THEN Ok(<<>>) ELSE tag_name_parser(a.name[1])
        al == IF a.alias.val = None THEN Ok(<<>>) ELSE tag_aliases_parser(a.alias.val[1])
    IN  IF ~n.ok THEN Err(n.err)
        ELSE IF ~al.ok THEN Err(al.err)
        ELSE Ok([a EXCEPT !.alias.val = IF @ = None THEN None ELSE Some(al.val)])

NoRun == [ok |-> TRUE, err |-> "none", did |-> {}, app |-> None]

Level(cmd, flags) == [cmd |-> cmd, flags |-> flags]

\* the program's entry point: load, dispatch on the first command word, resolve,
\* run, and on a committed nested command validate and write
run_app(doc, inv, a) ==
    LET tags == get_tags(doc)
        base == [inv |-> inv, args |-> a, before |-> doc, outcome |-> "Done",
                 err |-> "none", log |-> <<>>, ctx |-> <<>>, found |-> FALSE,
                 sub |-> None, opts |-> NoFlags, run |-> NoRun, mem |-> tags,
                 file |-> doc]
        pa   == ParseArgs(a)
        Fill(b, r) == [b EXCEPT !.outcome = r.outcome, !.err = r.err, !.log = r.log,
                                !.ctx = r.ctx, !.mem = r.mem, !.file = r.file]
    IN  IF ~Loads(doc)
        THEN [base EXCEPT !.outcome = "Failed", !.err = "json error", !.mem = <<>>]
        ELSE IF Len(inv) < 2 THEN base
        ELSE IF ~pa.ok THEN [base EXCEPT !.outcome = "Rejected", !.err = pa.err]
        ELSE IF Contains(DEFAULT_SUBCOMMAND_NAMES, inv[2].cmd)
        THEN Fill([base EXCEPT !.sub = Some(inv[2].cmd)],
                  run_global_default_command(inv[2].cmd, pa.val, tags, doc))
        ELSE LET f == find_matching_tag(tags, inv, 2)
             IN  IF f = None THEN [base EXCEPT !.outcome = "NotFound", !.err = "NoTagFound"]
                 ELSE LET hit == [base EXCEPT !.found = TRUE, !.ctx = f[1].ip,
                                              !.sub = f[1].sub]
                          tag == GetTag(tags, f[1].ip)
                      IN  IF f[1].sub # None THEN
                              LET r  == run_nested_default_command(tag, f[1].sub[1], pa.val)
                                  t2 == SetTag(tags, f[1].ip, r.tag)
                              IN  IF ~r.ok
                                  THEN [hit EXCEPT !.outcome = "Rejected", !.err = r.err,
                                                   !.mem = t2]
                                  ELSE IF r.verb = "Did not remove"
                                  THEN [hit EXCEPT !.outcome = "Rejected", !.err = "Declined",
                                                   !.mem = t2]
                                  ELSE Fill(hit, Finish(validate_and_write_tags(t2, doc),
                                                        t2, f[1].ip))
                          \* the matches the entry point can hold: its own, those of
                          \* the first tag word, and those find_matching_tag returns
                          ELSE LET o == from_matches(<<inv[1].flags, inv[2].flags,
                                                       inv[f[1].m].flags>>)
                                   r == run_tag(tag, o)
                               IN  [hit EXCEPT !.opts = o, !.run = r,
                                               !.err = r.err,
                                               !.outcome = IF r.ok THEN "Done" ELSE "Failed"]


---------------------------------------------------------------------------
\* The inputs

sW == <<"w">>

sK == <<"k">>

sD == <<"d">>

sX == <<"x">>

sY == <<"y">>

sG == <<"g">>

sS == <<"s">>

sN == <<"n">>

sM == <<"m">>

sP == <<"/", "p">>

sQ == <<"~", "/", "q">>

sT == <<"t">>

sV == <<"v">>

sU == <<"u">>

sZ == <<"z", "z">>

Obj(names, rest) == ("names" :> JMany(names)) @@ rest

\* w (alias k) { d { x (alias y) } }, g
Doc1 ==
    << Obj(<<sW, sK>>, ("about" :> sT) @@
           ("subtags" :> << Obj(<<sD>>, ("path" :> sP) @@
                                ("subtags" :> << Obj(<<sX, sY>>,
                                                     ("path" :> sQ) @@ ("app" :> sV)) >>)) >>)),
       Obj(<<sG>>, ("path" :> sQ) @@ ("app" :> sV)) >>

\* a hand-written file: legacy keys, a single-string name, the same name at two levels
Doc2 ==
    << ("name" :> JOne(sS)) @@ ("url" :> sU) @@ ("default_app" :> sV) @@
       ("subtags" :> << Obj(<<sS>>, EmptyObj), Obj(<<sD, sK>>, ("link" :> sP)) >>) >>

\* create_tags_file writes "[]"
Doc0 == <<>>

InitDocs == {Doc0, Doc1, Doc2}

\* a hand-written file with tags named like the management words (get_tags does
\* not validate what it loads):  w { add { x }, d },  remove
DocReserved ==
    << Obj(<<sW>>, ("subtags" :> << Obj(<<Add>>, ("path" :> sP) @@
                                        ("subtags" :> << Obj(<<sX>>, ("path" :> sQ)) >>)),
                                    Obj(<<sD>>, ("path" :> sQ)) >>)),
       Obj(<<Remove>>, ("path" :> sP)) >>

\* a hand-written file with conflicts at several levels:
\* w { d { x, x }, g { remove } },  k { add }
DocConflicts ==
    << Obj(<<sW>>, ("subtags" :>
           << Obj(<<sD>>, ("subtags" :> << Obj(<<sX>>, ("path" :> sP)),
                                           Obj(<<sX>>, ("path" :> sQ)) >>)),
              Obj(<<sG>>, ("subtags" :> << Obj(<<Remove>>, ("path" :> sP)) >>)) >>)),
       Obj(<<sK>>, ("subtags" :> << Obj(<<Add>>, ("path" :> sQ)) >>)) >>

ReservedDocs == {DocReserved, DocConflicts}

\* add <name> [--alias ..] [--path ..] [--about ..] [--app ..]
AddPayloads ==
    { [NoArgs EXCEPT !.name = Some(n)] : n \in {sN, sW, sD, <<>>, <<"a", " ", "b">>,
                                               <<"-", "n">>, Add} }
    \cup
    { [NoArgs EXCEPT !.name = Some(sN), !.alias = al] :
          al \in {NoValue, Value(sN), Value(<<"m", ",", "-", "k">>),
                  Value(<<"m", ",", ",">>), Value(<<>>), Value(sW),
                  Value(<<"m", ",", "a", "d", "d">>), Value(<<"m", " ", "k">>),
                  Value(<<"-", "m">>)} }
    \cup
    { [NoArgs EXCEPT !.name = Some(sM), !.alias = Value(sK), !.path = Value(sP),
                     !.about = Value(sT), !.app = Value(sV)],
      [NoArgs EXCEPT !.name = Some(sM), !.path = NoValue, !.about = Value(<<>>)] }

FieldArgs == {Absent, NoValue, Value(sU), Value(<<>>)}

\* update [--name ..] [--alias ..] [--path ..] [--about ..] [--app ..]
UpdatePayloads ==
    { [NoArgs EXCEPT !.name = n, !.alias = al] :
          n \in {None, Some(sN)},
          al \in {Absent, NoValue, Value(<<"m", ",", "k">>), Value(<<"m", ",", "-", "k">>)} }
    \cup { [NoArgs EXCEPT !.name = Some(n)] : n \in {Update, <<"-", "n">>, sD, sG} }
    \cup { [NoArgs EXCEPT !.alias = Value(al)] : al \in {<<>>, sD, <<"m", ",", "m">>} }
    \cup { [NoArgs EXCEPT !.path = f] : f \in FieldArgs }
    \cup { [NoArgs EXCEPT !.about = f] : f \in FieldArgs }
    \cup { [NoArgs EXCEPT !.app = f] : f \in FieldArgs }
    \cup { [NoArgs EXCEPT !.path = NoValue, !.about = Value(sT), !.app = NoValue],
           [NoArgs EXCEPT !.name = Some(sN), !.path = Value(sP), !.app = Value(sV)] }

\* remove [--no-prompt], and the answer to the confirmation prompt
RemoveAnswers ==
    { [NoArgs EXCEPT !.no_prompt = np, !.confirm = c] :
          np \in BOOLEAN, c \in BOOLEAN }

\* what the user types at the prompt for names (dialoguer re-prompts on an empty line)
NameInputs ==
    { sN, <<"n", ",", " ", "m", ",">>, <<",">>, <<"n", ",", "n">>, sW, sD,
      <<"a", " ", "b">>, <<"-", "n">>, Add }

\* one session of `ot add`: the name list, then path, about and app
AddAnswers ==
    { [NoArgs EXCEPT !.input = i] : i \in NameInputs }
    \cup { [NoArgs EXCEPT !.input = sM, !.ipath = sP, !.iabout = sT, !.iapp = sV] }

\* what the editor hands back: None when the buffer was not saved
NameEdits ==
    { None, Some(<<"n", ",", "m", "\n", "#", "c", "\n">>), Some(<<"#", "c", "\n">>),
      Some(<<"n", ",", "\n", "m">>), Some(sG), Some(<<"a", " ", "b">>),
      Some(<<"-", "n">>), Some(Remove), Some(<<"n", ",", "n">>) }

FieldEdits == { None, Some(sU), Some(<<"#", "c", "\n">>), Some(<<"u", "\n", "#", "c">>) }

\* one editing session of `ot update`: the four buffers the editor hands back
UpdateEdits ==
    { [NoArgs EXCEPT !.enames = en] : en \in NameEdits }
    \cup { [NoArgs EXCEPT !.epath = ef] : ef \in FieldEdits }
    \cup { [NoArgs EXCEPT !.eabout = ef] : ef \in FieldEdits }
    \cup { [NoArgs EXCEPT !.eapp = ef] : ef \in FieldEdits }
    \cup { [NoArgs EXCEPT !.enames = Some(<<"n", ",", "m">>), !.epath = Some(<<>>),
                          !.eabout = Some(sT), !.eapp = Some(<<"#", "c">>)] }

\* every way of naming the tag at an index path: one name of each tag on the way
RECURSIVE SegChoices(_, _)
SegChoices(tags, ip) ==
    IF ip = <<>> THEN {<<>>}
    ELSE {<<n>> \o rest : n \in Range(tags[ip[1]].names),
                          rest \in SegChoices(tags[ip[1]].subtags, Tail(ip))}

\* the words clap hands over for a tag path: each subcommand's own name, names[0]
RECURSIVE CommandWords(_, _)
CommandWords(tags, ip) ==
    IF ip = <<>> THEN <<>>
    ELSE <<tags[ip[1]].names[1]>> \o CommandWords(tags[ip[1]].subtags, Tail(ip))

Flag(f) == [NoFlags EXCEPT ![f] = TRUE]

AppFlag(v) == [NoFlags EXCEPT !.app = Some(v)]

\* the action flags of an invocation, level by level from the root
FlagPlans ==
    { <<>>, <<Flag("copy")>>, <<AppFlag(sN)>>, <<NoFlags, Flag("print")>>,
      <<NoFlags, Flag("copy"), Flag("print")>>, <<NoFlags, Flag("copy")>>,
      <<NoFlags, AppFlag(sN), AppFlag(sM)>>, <<AppFlag(sN), NoFlags, NoFlags, AppFlag(sM)>>,
      <<NoFlags, NoFlags, Flag("print")>>, <<NoFlags, NoFlags, Flag("copy"), Flag("info")>>,
      <<NoFlags, NoFlags, Flag("info")>>, <<NoFlags, Flag("list")>>,
      <<NoFlags, Flag("silent_copy")>>, <<NoFlags, NoFlags, NoFlags, Flag("print")>>,
      <<NoFlags, Flag("info"), Flag("copy")>> }

PlanAt(plan, k) == IF k \in DOMAIN plan THEN plan[k] ELSE NoFlags

\* the invocation `ot [flags] seg1 [flags] seg2 [flags] .. [word]`
Invocation(segs, plan, word) ==
    <<Level(<<>>, PlanAt(plan, 1))>>
    \o [k \in DOMAIN segs |-> Level(segs[k], PlanAt(plan, k + 1))]
    \o (IF word = None THEN <<>> ELSE <<Level(word[1], NoFlags)>>)

---------------------------------------------------------------------------
\* The state machine: one action is one invocation of the program.
\*   file: the persisted document;  mem: the forest in memory when the
\*   invocation ended;  last: the invocation, what it resolved to and how it
\*   ended;  nops: the invocations so far.

NoInvocation ==
    [inv |-> <<>>, args |-> NoArgs, before |-> <<>>, outcome |-> "none", err |-> "none",
     log |-> <<>>, ctx |-> <<>>, found |-> FALSE, sub |-> None, opts |-> NoFlags,
     run |-> NoRun, route |-> "none"]

Init ==
    /\ file \in InitDocs
    /\ mem = get_tags(file)
    /\ nops = 0
    /\ last = [NoInvocation EXCEPT !.before = file]

\* the bound on a behaviour's length; the command lines of the actions below are
\* built from the forest of a tags file that loads
CanInvoke == nops < MaxOps /\ Loads(file)

Invoke(inv, a, route) ==
    \E r \in {run_app(file, inv, a)} :
        /\ nops' = nops + 1
        /\ file' = r.file
        /\ mem' = r.mem
        /\ last' = [inv |-> r.inv, args |-> r.args, before |-> r.before,
                    outcome |-> r.outcome, err |-> r.err, log |-> r.log, ctx |-> r.ctx,
                    found |-> r.found, sub |-> r.sub, opts |-> r.opts, run |-> r.run,
                    route |-> route]

\* ot add <name> ..
GlobalAddInline ==
    /\ CanInvoke
    /\ \E a \in AddPayloads : Invoke(Invocation(<<>>, <<>>, Some(Add)), a, "global_add_inline")

\* ot add
GlobalAddInteractive ==
    /\ CanInvoke
    /\ \E a \in AddAnswers, picks \in {<<>>} \cup Paths(get_tags(file)) :
           Invoke(Invocation(<<>>, <<>>, Some(Add)), [a EXCEPT !.picks = picks],
                  "global_add_interactive")

\* ot remove [--no-prompt]
GlobalRemove ==
    /\ CanInvoke
    /\ \E a \in RemoveAnswers, picks \in {<<>>} \cup Paths(get_tags(file)) :
           Invoke(Invocation(<<>>, <<>>, Some(Remove)), [a EXCEPT !.picks = picks],
                  "global_remove")

\* ot update
GlobalUpdate ==
    /\ CanInvoke
    /\ \E picks \in {<<>>} \cup Paths(get_tags(file)), a \in UpdateEdits :
           Invoke(Invocation(<<>>, <<>>, Some(Update)), [a EXCEPT !.picks = picks],
                  "global_update")

\* ot <tag path> add ..
NestedAdd ==
    /\ CanInvoke
    /\ \E ip \in Paths(get_tags(file)), a \in AddPayloads \cup {NoArgs} :
           Invoke(Invocation(CommandWords(get_tags(file), ip), <<>>, Some(Add)), a, "nested_add")

\* ot <tag path> remove [--no-prompt]
NestedRemove ==
    /\ CanInvoke
    /\ \E ip \in Paths(get_tags(file)), a \in RemoveAnswers :
           Invoke(Invocation(CommandWords(get_tags(file), ip), <<>>, Some(Remove)), a, "nested_remove")

\* ot <tag path> update ..
NestedUpdate ==
    /\ CanInvoke
    /\ \E ip \in Paths(get_tags(file)), a \in UpdatePayloads :
           Invoke(Invocation(CommandWords(get_tags(file), ip), <<>>, Some(Update)), a, "nested_update")

\* ot [flags] <tag path with flags>
OpenTag ==
    /\ CanInvoke
    /\ \E ip \in Paths(get_tags(file)), plan \in FlagPlans :
           \E segs \in SegChoices(get_tags(file), ip) :
               Invoke(Invocation(segs, plan, None), NoArgs, "tag")

\* ot <words naming no tag>
OpenMissing ==
    /\ CanInvoke
    /\ \E segs \in {<<sZ>>, <<sW, sZ>>, <<sD>>, <<sS, sS, sS>>, <<sW, sD, sX, sX>>},
          word \in {None, Some(Add), Some(Remove)} :
           Invoke(Invocation(segs, <<NoFlags, Flag("print")>>, word), NoArgs, "tag")

\* ot <the words that named a tag just removed, or one below it>: one more
\* invocation after a committed remove, with the names the tags had before it
OpenRemoved ==
    /\ nops < MaxOps + 1
    /\ last.outcome = "Committed"
    /\ last.route \in {"global_remove", "nested_remove"}
    /\ \E ip \in Paths(get_tags(last.before)) :
           /\ Len(ip) >= Len(last.ctx)
           /\ SubSeq(ip, 1, Len(last.ctx)) = last.ctx
           /\ \E segs \in SegChoices(get_tags(last.before), ip) :
                  Invoke(Invocation(segs, <<>>, None), NoArgs, "tag_removed")

\* any invocation while the tags file does not load
InvokeUnloadable ==
    /\ nops < MaxOps
    /\ ~Loads(file)
    /\ \E segs \in {<<>>, <<sW>>, <<sW, sD>>}, word \in {None, Some(Remove), Some(Update)} :
           Invoke(Invocation(segs, <<>>, word), NoArgs, "unloadable")

\* the management invocations
Next ==
    \/ GlobalAddInline
    \/ GlobalAddInteractive
    \/ GlobalRemove
    \/ GlobalUpdate
    \/ NestedAdd
    \/ NestedRemove
    \/ NestedUpdate

Spec == Init /\ [][Next]_vars

\* the invocations that resolve a tag path, on a forest as loaded or after a remove
NextResolve ==
    \/ OpenTag
    \/ OpenMissing
    \/ GlobalRemove
    \/ NestedRemove
    \/ OpenRemoved

SpecResolve == Init /\ [][NextResolve]_vars

\* a hand-written file with an empty list of names:  w { d (names: []) }
DocEmptyNames ==
    << Obj(<<sW>>, ("path" :> sP) @@
           ("subtags" :> << ("names" :> JMany(<<>>)) @@ ("path" :> sQ) >>)) >>

LoadDocs == {Doc1, Doc2, DocEmptyNames}

\* the program started on a tags file that may not load
InitLoad ==
    /\ file \in LoadDocs
    /\ mem = IF Loads(file) THEN get_tags(file) ELSE <<>>
    /\ nops = 0
    /\ last = [NoInvocation EXCEPT !.before = file]

NextLoad ==
    \/ GlobalAddInline
    \/ GlobalRemove
    \/ NestedRemove
    \/ NestedUpdate
    \/ InvokeUnloadable

SpecLoad == InitLoad /\ [][NextLoad]_vars

\* the same program started on a tags file that may have been written by hand
InitReserved ==
    /\ file \in ReservedDocs
    /\ mem = get_tags(file)
    /\ nops = 0
    /\ last = [NoInvocation EXCEPT !.before = file]

\* ot <tag path>, no flags
OpenPlain ==
    /\ CanInvoke
    /\ \E ip \in Paths(get_tags(file)) :
           \E segs \in SegChoices(get_tags(file), ip) :
               Invoke(Invocation(segs, <<>>, None), NoArgs, "tag")

NextReserved ==
    \/ OpenPlain
    \/ GlobalRemove
    \/ GlobalUpdate
    \/ NestedAdd
    \/ NestedRemove
    \/ NestedUpdate

SpecReserved == InitReserved /\ [][NextReserved]_vars


---------------------------------------------------------------------------
\* Properties

\* the forest the last invocation loaded
Pre == get_tags(last.before)

Parsed == ParseArgs(last.args)

\* the tag words of the last invocation, without a trailing management word
Words ==
    LET n == IF last.sub = None THEN Len(last.inv) ELSE Len(last.inv) - 1
    IN  [k \in 1..(n - 1) |-> last.inv[k + 1].cmd]

NoDuplicates(ns) == \A i, j \in DOMAIN ns : i # j => ns[i] # ns[j]

LevelClean(tags) ==
    /\ NoDuplicates(AllNames(tags))
    /\ \A i \in DOMAIN AllNames(tags) : AllNames(tags)[i] \notin {Add, Remove, Update}

ForestClean(tags) ==
    /\ LevelClean(tags)
    /\ \A ip \in Paths(tags) : LevelClean(GetTag(tags, ip).subtags)

\* C1: the persisted forest never holds a duplicate name at a sibling level
\* (two equal names inside one tag included) nor a name equal to add, remove
\* or update.  Stated as the claim states it; `ot add n --alias n` breaks it.
C1_PersistedForestClean == Loads(file) /\ ForestClean(get_tags(file))

AddRoutes == {"global_add_inline", "global_add_interactive", "nested_add"}

\* an add reached the collision check: its arguments parsed, its target level
\* was resolved and a tag to add was built
AddAttempted ==
    /\ last.route \in AddRoutes
    /\ Parsed.ok
    /\ last.route = "nested_add" => last.found /\ last.args.name # None

AddTarget ==
    IF last.route = "global_add_inline" THEN <<>>
    ELSE IF last.route = "global_add_interactive" THEN last.args.picks
    ELSE last.ctx

AddNames ==
    IF last.route = "global_add_interactive" THEN ParseNameList(last.args.input)
    ELSE <<Parsed.val.name[1]>>
         \o (IF Parsed.val.alias.val = None THEN <<>> ELSE Parsed.val.alias.val[1])

LiveNames(tags) == UNION {Range(tags[i].names) : i \in DOMAIN tags}

AddCollides == Range(AddNames) \cap LiveNames(LevelAt(Pre, AddTarget)) # {}

\* C2: add fails with NameInUse and leaves the whole tree unchanged when a name
\* of the new tag is a name of a tag of the target level; otherwise the new tag
\* is the last element of the target level and every earlier sibling, and the
\* rest of the tree, is as before.
C2_AddCollisionOrAppend ==
    AddAttempted =>
        LET old == LevelAt(Pre, AddTarget)
            new == LevelAt(mem, AddTarget)
        IN  IF AddCollides
            THEN /\ last.outcome = "Rejected"
                 /\ last.err = "NameInUse"
                 /\ mem = Pre
                 /\ file = last.before
            ELSE /\ Len(new) = Len(old) + 1
                 /\ SubSeq(new, 1, Len(old)) = old
                 /\ new[Len(new)].names = AddNames
                 /\ new[Len(new)].subtags = <<>>
                 /\ SetLevel(mem, AddTarget, old) = Pre

\* an add onto a level that has siblings, with an alias list, was appended
C2_Witness_Appended ==
    /\ AddAttempted /\ ~AddCollides
    /\ Len(AddNames) >= 2
    /\ Len(LevelAt(Pre, AddTarget)) >= 1
    /\ Len(AddTarget) >= 1

\* an add whose alias, not its first name, is taken at the level was refused
C2_Witness_Refused ==
    /\ AddAttempted /\ AddCollides
    /\ AddNames[1] \notin LiveNames(LevelAt(Pre, AddTarget))

RemoveRoutes == {"global_remove", "nested_remove"}

\* a remove went past its confirmation on a node it selected or resolved
RemoveActed ==
    /\ last.route \in RemoveRoutes
    /\ last.args.no_prompt \/ last.args.confirm
    /\ last.route = "global_remove" => last.args.picks # <<>>
    /\ last.route = "nested_remove" => last.found

RemoveNode == IF last.route = "global_remove" THEN last.args.picks ELSE last.ctx

\* C3: remove clears the node's names and nothing else: the forest in memory
\* has the same index paths as before (every sequence keeps its length, every
\* node its index), the node keeps path, about, app and subtags, and every
\* other node is as it was.
C3_RemoveOnlyClearsNames ==
    RemoveActed =>
        /\ Paths(mem) = Paths(Pre)
        /\ \A ip \in Paths(Pre) :
               LET was == GetTag(Pre, ip)
                   now == GetTag(mem, ip)
               IN  /\ now.path = was.path /\ now.about = was.about /\ now.app = was.app
                   /\ Len(now.subtags) = Len(was.subtags)
                   /\ now.names = IF ip = RemoveNode THEN <<>> ELSE was.names

\* a node with a later sibling and with subtags was removed
C3_Witness_RemovedWithSiblings ==
    /\ RemoveActed
    /\ GetTag(mem, RemoveNode).names = <<>>
    /\ GetTag(Pre, RemoveNode).subtags # <<>>
    /\ RemoveNode[Len(RemoveNode)]
           < Len(LevelAt(Pre, SubSeq(RemoveNode, 1, Len(RemoveNode) - 1)))

\* no object of the document, at any depth, lacks names or has an empty list
RECURSIVE NoEmptyNames(_)
NoEmptyNames(doc) ==
    \A i \in DOMAIN doc :
        /\ "names" \in DOMAIN doc[i]
        /\ "many" \in DOMAIN doc[i].names
        /\ doc[i].names.many # <<>>
        /\ "subtags" \in DOMAIN doc[i] => NoEmptyNames(doc[i].subtags)

\* the live tags whose ancestors are all live, in their order
RECURSIVE Prune(_)
Prune(tags) ==
    LET live == SelectSeq(tags, IsLive)
    IN  [i \in DOMAIN live |-> [live[i] EXCEPT !.subtags = Prune(@)]]

\* the names lists of a document, level by level, as written
RECURSIVE DocNames(_)
DocNames(doc) ==
    [i \in DOMAIN doc |->
        <<doc[i].names.many,
          IF "subtags" \in DOMAIN doc[i] THEN DocNames(doc[i].subtags) ELSE <<>> >>]

RECURSIVE TagNames(_)
TagNames(tags) == [i \in DOMAIN tags |-> <<tags[i].names, TagNames(tags[i].subtags)>>]

\* C4: what a committed invocation wrote holds no tag with an empty names list
\* at any depth, and holds every live tag whose ancestors are all live, in the
\* order of the forest in memory.
C4_WrittenFormHasNoTombstone ==
    last.outcome = "Committed" =>
        /\ NoEmptyNames(file)
        /\ DocNames(file) = TagNames(Prune(mem))

\* a forest with a tombstone below the root level, whose parent has another
\* live subtag, was written
C4_Witness_NestedTombstoneWritten ==
    /\ last.outcome = "Committed"
    /\ \E ip \in Paths(mem) :
           /\ Len(ip) >= 2
           /\ GetTag(mem, ip).names = <<>>
           /\ \E jp \in Paths(mem) :
                  /\ Len(jp) = Len(ip)
                  /\ SubSeq(jp, 1, Len(jp) - 1) = SubSeq(ip, 1, Len(ip) - 1)
                  /\ GetTag(mem, jp).names # <<>>


\* an inline update was applied to the tag the invocation resolved
UpdateApplied == last.route = "nested_update" /\ Parsed.ok /\ last.found

UpdatedWas == GetTag(Pre, last.ctx)

UpdatedNow == GetTag(mem, last.ctx)

\* what the claim says of one of path, about, app: given without a value the
\* field becomes absent, given with a value (an empty string is a value) it
\* becomes that value, not given it keeps its value
FieldAfter(arg, was) ==
    IF arg.present /\ arg.val = None THEN None
    ELSE IF arg.present THEN Some(arg.val[1])
    ELSE was

\* C5: update sets each of path, about and app by its own assignment alone (no
\* value: absent; a value: that value; not given: as before), and changes no
\* subtag, no other tag and, when no name or alias is given, no name.
C5_UpdateFieldByField ==
    UpdateApplied =>
        /\ UpdatedNow.path = FieldAfter(last.args.path, UpdatedWas.path)
        /\ UpdatedNow.about = FieldAfter(last.args.about, UpdatedWas.about)
        /\ UpdatedNow.app = FieldAfter(last.args.app, UpdatedWas.app)
        /\ UpdatedNow.subtags = UpdatedWas.subtags
        /\ (last.args.name = None /\ ~last.args.alias.present) =>
               UpdatedNow.names = UpdatedWas.names
        /\ SetTag(mem, last.ctx, UpdatedWas) = Pre

\* a path was cleared while about was set and a present app was cleared
C5_Witness_ClearedAndSet ==
    /\ UpdateApplied
    /\ last.args.path = NoValue /\ UpdatedWas.path # None /\ UpdatedNow.path = None
    /\ last.args.about.val # None
    /\ last.args.app = NoValue /\ UpdatedWas.app # None

\* C6: update replaces names[0] by a given name and leaves it otherwise; it
\* replaces names[1..] by a given non-empty alias list, empties it for an alias
\* argument without a value, and leaves it otherwise; names stays non-empty.
C6_UpdateNames ==
    UpdateApplied =>
        LET was  == UpdatedWas.names
            now  == UpdatedNow.names
            list == IF Parsed.val.alias.val = None THEN <<>> ELSE Parsed.val.alias.val[1]
        IN  /\ now # <<>>
            /\ now[1] = IF last.args.name # None THEN last.args.name[1] ELSE was[1]
            /\ Tail(now) = IF list # <<>> THEN list
                           ELSE IF last.args.alias.present THEN <<>>
                           ELSE Tail(was)

\* the aliases of a tag that had one were replaced by two, its first name kept
C6_Witness_AliasesReplaced ==
    /\ UpdateApplied
    /\ last.args.name = None
    /\ Len(UpdatedWas.names) = 2
    /\ Len(UpdatedNow.names) = 3
    /\ UpdatedNow.names[2] # UpdatedWas.names[2]

\* C7: on a forest that passes check_tree, an invocation made of one name of
\* each tag on the way to a live tag resolves to that very node.
C7_ResolveRoundTrip ==
    (last.route = "tag" /\ last.sub = None /\ ForestClean(Pre)) =>
        \A ip \in Paths(Pre) :
            Words \in SegChoices(Pre, ip) => last.found /\ last.ctx = ip

\* a tag three levels down was named through aliases and resolved
C7_Witness_DeepAlias ==
    /\ last.route = "tag" /\ last.found /\ ForestClean(Pre)
    /\ Len(last.ctx) = 3
    /\ Words \in SegChoices(Pre, last.ctx)
    /\ Words[1] # GetTag(Pre, <<last.ctx[1]>>).names[1]
    /\ Words[3] # GetTag(Pre, last.ctx).names[1]

Levels == DOMAIN last.inv

FirstApp ==
    LET set == {k \in Levels : last.inv[k].flags.app # None}
    IN  IF set = {} THEN None
        ELSE last.inv[CHOOSE k \in set : \A o \in set : k <= o].flags.app

\* C8: the flags of the final action are the merge over every level of the
\* invocation, the intermediate ones included: each boolean flag is the OR over
\* the levels, app the outermost one given.  `ot w d --print x` breaks it.
C8_FlagsMergedOverEveryLevel ==
    (last.route = "tag" /\ last.found /\ last.sub = None) =>
        /\ last.opts.print = (\E k \in Levels : last.inv[k].flags.print)
        /\ last.opts.copy = (\E k \in Levels : last.inv[k].flags.copy)
        /\ last.opts.silent_copy = (\E k \in Levels : last.inv[k].flags.silent_copy)
        /\ last.opts.list = (\E k \in Levels : last.inv[k].flags.list)
        /\ last.opts.info = (\E k \in Levels : last.inv[k].flags.info)
        /\ last.opts.app = FirstApp

NameAllowed(n) ==
    /\ n # <<>>
    /\ ~Contains(n, " ")
    /\ ~StartsWith(n, "-")
    /\ n \notin {Add, Remove, Update}

\* C9: no tag in memory ever carries a name that is empty, holds a space,
\* begins with a hyphen or is add, remove or update.  `ot add n --alias=m,-k`
\* and the answer `a b` to the interactive add break it.
C9_StoredNamesObeyPolicy ==
    \A ip \in Paths(mem) :
        \A i \in DOMAIN GetTag(mem, ip).names : NameAllowed(GetTag(mem, ip).names[i])

\* C10: an invocation that ends Rejected leaves the persisted document exactly
\* as it was before the invocation.
C10_RejectedLeavesFileUntouched ==
    last.outcome = "Rejected" => file = last.before

\* a mutated forest failed the validation at writeback
C10_Witness_RejectedAtWriteback ==
    /\ last.outcome = "Rejected"
    /\ last.log = <<"mutate", "validate">>
    /\ mem # Pre

\* C11: every management operation that ends Committed is followed by a
\* full-tree validation and then the write, in that order, and no mutated
\* forest is written without a validation before it in the same invocation.
\* Stated as the claim states it; `ot add n` and `ot remove` break it.
C11_CommittedValidatesThenWrites ==
    last.outcome = "Committed" => last.log = <<"mutate", "validate", "write">>

\* the first level of the last invocation whose word is a management word
ReservedLevels == {k \in 2..Len(last.inv) : Contains(DEFAULT_SUBCOMMAND_NAMES, last.inv[k].cmd)}

FirstReserved == CHOOSE k \in ReservedLevels : \A o \in ReservedLevels : k <= o

\* the node a sequence of tag words names, level by level
RECURSIVE WalkTo(_, _)
WalkTo(tags, segs) ==
    IF segs = <<>> THEN Some(<<>>)
    ELSE LET hits == {i \in DOMAIN tags : \E n \in DOMAIN tags[i].names :
                                               tags[i].names[n] = segs[1]}
         IN  IF hits = {} THEN None
             ELSE LET i   == CHOOSE m \in hits : \A o \in hits : m <= o
                      sub == WalkTo(tags[i].subtags, Tail(segs))
                  IN  IF sub = None THEN None ELSE Some(<<i>> \o sub[1])

WordsBefore(k) == [j \in 1..(k - 2) |-> last.inv[j + 1].cmd]

\* C12: during resolution a word equal to add, remove or update stops the walk
\* and yields the management command with the tag resolved so far as its
\* context (the root when it is the first word), even if a tag at that level
\* carries the same name; no tag is run for it and the walk does not descend.
\* (A command line clap refuses for its arguments is never resolved.)
C12_ReservedWordStopsTheWalk ==
    (Parsed.ok /\ ReservedLevels # {} /\ WalkTo(Pre, WordsBefore(FirstReserved)) # None) =>
        /\ last.sub = Some(last.inv[FirstReserved].cmd)
        /\ last.run = NoRun
        /\ last.found = (FirstReserved > 2)
        /\ FirstReserved > 2 => last.ctx = WalkTo(Pre, WordsBefore(FirstReserved))[1]

\* `ot w add ..` on a forest where w has a subtag named add
C12_Witness_ShadowedByTag ==
    /\ ReservedLevels # {} /\ FirstReserved = 3
    /\ last.sub = Some(Add)
    /\ last.ctx = <<1>>
    /\ \E i \in DOMAIN GetTag(Pre, <<1>>).subtags :
           Contains(GetTag(Pre, <<1>>).subtags[i].names, Add)

\* the tag words of the last invocation: those before its management word
TagWords ==
    IF ReservedLevels = {} THEN WordsBefore(Len(last.inv) + 1)
    ELSE WordsBefore(FirstReserved)

\* the live nodes a sequence of words names: each word a name of the node at
\* that depth
Named(tags, segs) ==
    {ip \in Paths(tags) :
        /\ Len(ip) = Len(segs)
        /\ \A j \in DOMAIN segs : \E n \in DOMAIN GetTag(tags, SubSeq(ip, 1, j)).names :
               GetTag(tags, SubSeq(ip, 1, j)).names[n] = segs[j]}

\* C13: resolution ends NotFound exactly when some tag word of the invocation
\* equals no name of a live tag at its level; a tombstone is matched by no
\* word, so the words that named a removed tag, or a tag below it, resolve to
\* nothing, in the forest in memory and in every later invocation.
C13_NotFoundExactlyWhenNoLiveMatch ==
    /\ (last.inv # <<>> /\ Parsed.ok) =>
           ((last.outcome = "NotFound") <=> (TagWords # <<>> /\ Named(Pre, TagWords) = {}))
    /\ last.route = "tag_removed" => last.outcome = "NotFound" /\ ~last.found
    /\ (RemoveActed /\ last.outcome = "Committed") =>
           \A ip \in Paths(Pre) :
               (Len(ip) >= Len(RemoveNode) /\ SubSeq(ip, 1, Len(RemoveNode)) = RemoveNode) =>
                   \A segs \in SegChoices(Pre, ip) :
                       find_matching_tag(mem, Invocation(segs, <<>>, None), 2) = None

\* the words of a tag below a removed one were given again and named nothing:
\* the first of them already matches no live tag
C13_Witness_DescendantOfRemoved ==
    /\ last.route = "tag_removed"
    /\ last.outcome = "NotFound"
    /\ Len(TagWords) >= 2
    /\ Named(Pre, <<TagWords[1]>>) = {}

\* C14: `<tag path> add` with no name given enters the interactive add with the
\* resolved tag as the parent, as `add` alone does at the root; it does not
\* fail.  Stated as the claim states it; `ot w add` breaks it.
C14_NestedAddWithoutNameIsInteractive ==
    (last.route = "nested_add" /\ last.found /\ Parsed.ok /\ last.args.name = None) =>
        /\ last.outcome # "Rejected"
        /\ last.err # "tag name cannot be empty"

\* every combination of the action flags
AllOptions ==
    [print : BOOLEAN, copy : BOOLEAN, list : BOOLEAN, silent_copy : BOOLEAN,
     info : BOOLEAN, app : {None, Some(sN)}]

\* the request is for an action that needs a path: open (nothing else asked),
\* copy, silent-copy or print
NeedsPath(o) == o.copy \/ o.silent_copy \/ o.print \/ (~o.list /\ ~o.info)

\* C15: run_tag fails with TagWithNoPath only if the tag has no path and the
\* request is for an action that needs one; a list or an info-only request on
\* a tag without a path never fails with it, and a tag with a path never does.
\* Checked for the flags of the invocation and for every other combination on
\* the tag the invocation resolved.
C15_TagWithNoPathOnlyWhenPathNeeded ==
    (last.route = "tag" /\ last.found /\ last.sub = None) =>
        /\ last.run.err = "TagWithNoPath" =>
               GetTag(Pre, last.ctx).path = None /\ NeedsPath(last.opts)
        /\ \A o \in AllOptions :
               /\ run_tag(GetTag(Pre, last.ctx), o).err = "TagWithNoPath" =>
                      GetTag(Pre, last.ctx).path = None /\ NeedsPath(o)
               /\ GetTag(Pre, last.ctx).path # None => run_tag(GetTag(Pre, last.ctx), o).ok

\* a print was asked of a grouping tag that has subtags and no path
C15_Witness_PrintOnGroupingTag ==
    /\ last.route = "tag" /\ last.found /\ last.sub = None
    /\ GetTag(Pre, last.ctx).path = None
    /\ GetTag(Pre, last.ctx).subtags # <<>>
    /\ last.opts.print
    /\ last.run.err = "TagWithNoPath"

\* the sibling levels of a forest in pre-order: a level, then, tag by tag in
\* sibling order, the levels below that tag
RECURSIVE PreOrderLevels(_)
PreOrderLevels(tags) ==
    <<tags>> \o Concat([i \in DOMAIN tags |-> PreOrderLevels(tags[i].subtags)])

UncleanLevels(tags) ==
    {j \in DOMAIN PreOrderLevels(tags) : ~LevelClean(PreOrderLevels(tags)[j])}

FirstUnclean(tags) ==
    PreOrderLevels(tags)[CHOOSE j \in UncleanLevels(tags) :
                            \A o \in UncleanLevels(tags) : j <= o]

\* the positions, in sibling order and name order, of the names of a level that
\* repeat an earlier one or are a management word
Offending(level) ==
    {k \in DOMAIN AllNames(level) :
        \/ \E j \in 1..(k - 1) : AllNames(level)[j] = AllNames(level)[k]
        \/ AllNames(level)[k] \in {Add, Remove, Update}}

FirstOffending(level) ==
    AllNames(level)[CHOOSE k \in Offending(level) : \A o \in Offending(level) : k <= o]

Validated == \E k \in DOMAIN last.log : last.log[k] = "validate"

\* C16: the validation returns the first conflict in pre-order (a level is
\* checked whole, siblings in order and names in order, before any level below
\* it; then the subtags of each tag in sibling order), and no conflict exactly
\* when no level has a repeated name or a name equal to add, remove or update.
C16_FirstConflictInPreOrder ==
    Validated =>
        /\ validate_tags(mem).ok <=> UncleanLevels(mem) = {}
        /\ ~validate_tags(mem).ok =>
               /\ validate_tags(mem).name = FirstOffending(FirstUnclean(mem))
               /\ validate_tags(mem).err \in {"NameInUse", "ReservedName"}
               /\ last.err = validate_tags(mem).err
               /\ last.outcome = "Rejected"

\* a forest with conflicts at several levels was validated, the first of them
\* below the root level
C16_Witness_SeveralConflicts ==
    /\ Validated
    /\ Cardinality(UncleanLevels(mem)) >= 2
    /\ LevelClean(mem)
    /\ FirstUnclean(mem) # PreOrderLevels(mem)[Len(PreOrderLevels(mem))]
    /\ ~validate_tags(mem).ok

\* some tag of the document, at any depth, has an empty list of names
RECURSIVE HasEmptyList(_)
HasEmptyList(doc) ==
    \E i \in DOMAIN doc :
        \/ \E k \in {"names", "name"} \cap DOMAIN doc[i] :
               "many" \in DOMAIN doc[i][k] /\ doc[i][k].many = <<>>
        \/ "subtags" \in DOMAIN doc[i] /\ HasEmptyList(doc[i].subtags)

\* the names of a document's tags, a single string read as a list of one
RECURSIVE NormNames(_)
NormNames(doc) ==
    [i \in DOMAIN doc |->
        LET k == CHOOSE key \in {"names", "name"} : key \in DOMAIN doc[i]
        IN  <<IF "one" \in DOMAIN doc[i][k] THEN <<doc[i][k].one>> ELSE doc[i][k].many,
              IF "subtags" \in DOMAIN doc[i] THEN NormNames(doc[i].subtags) ELSE <<>> >>]

\* C17: loading reads a single string of names as a list of one, keeps a
\* non-empty list and fails on an empty list; and loading what is written for
\* a forest in memory succeeds and gives that forest without its tombstoned
\* tags: same names, path, about, app and order for every tag that remains.
C17_LoadNormalisesAndRoundTrips ==
    /\ Loads(Serialize(mem))
    /\ get_tags(Serialize(mem)) = Prune(mem)
    /\ HasEmptyList(last.before) => ~Loads(last.before)
    /\ ~HasEmptyList(last.before) =>
           Loads(last.before) /\ TagNames(Pre) = NormNames(last.before)

\* a file that names a tag with a single string was loaded, a tag with live
\* subtags was removed, and the forest was written
C17_Witness_TombstoneWithLiveSubtags ==
    /\ last.outcome = "Committed"
    /\ \E i \in DOMAIN last.before :
           "name" \in DOMAIN last.before[i] /\ "one" \in DOMAIN last.before[i].name
    /\ \E ip \in Paths(mem) :
           /\ GetTag(mem, ip).names = <<>>
           /\ \E j \in DOMAIN GetTag(mem, ip).subtags : GetTag(mem, ip).subtags[j].names # <<>>

\* a sequence without its i-th element
Without(seq, i) == SubSeq(seq, 1, i - 1) \o SubSeq(seq, i + 1, Len(seq))

\* a forest without the node at a path, and so without everything below it
RECURSIVE DeleteAt(_, _)
DeleteAt(tags, ip) ==
    IF Len(ip) = 1 THEN Without(tags, ip[1])
    ELSE [tags EXCEPT ![ip[1]].subtags = DeleteAt(@, Tail(ip))]

StrictlyBelow(ip, node) ==
    Len(ip) > Len(node) /\ SubSeq(ip, 1, Len(node)) = node

\* C18: after a remove and its writeback the persisted forest is the forest as
\* it was without the removed tag and without anything below it, although
\* every tag below it still has its names in memory; no other tag is dropped.
C18_RemoveDropsTheWholeSubtree ==
    (RemoveActed /\ last.outcome = "Committed") =>
        /\ get_tags(file) = DeleteAt(Pre, RemoveNode)
        /\ \A ip \in Paths(mem) :
               StrictlyBelow(ip, RemoveNode) =>
                   /\ GetTag(mem, ip).names # <<>>
                   /\ GetTag(mem, ip).names = GetTag(Pre, ip).names

\* a tag with a subtag that itself has a subtag was removed, next to a sibling
\* that stays
C18_Witness_DeepSubtreeDropped ==
    /\ RemoveActed /\ last.outcome = "Committed"
    /\ \E ip \in Paths(mem) : Len(ip) >= Len(RemoveNode) + 2 /\ StrictlyBelow(ip, RemoveNode)
    /\ Len(LevelAt(Pre, SubSeq(RemoveNode, 1, Len(RemoveNode) - 1))) >= 2
    /\ get_tags(file) # <<>>

=============================================================================
